---- MODULE Spec2Model ----
(***************************************************************************)
(* Model of karakeep_sync.py: one-way incremental sync of OpenWebUI chats  *)
(* into a Karakeep list.  Strings whose characters matter (titles, chat    *)
(* ids) are sequences of one-character strings.  Epoch times are naturals; *)
(* an ISO timestamp of the state file is the number of milliseconds it     *)
(* denotes.  None is 0 for ids/cursors and <<>> for a failed regex match.  *)
(***************************************************************************)
EXTENDS Naturals, Integers, Sequences, FiniteSets, TLC

\* ---------------------------------------------------------------- bounds
MaxTime == 2          \* updated_at values of source rows are in 1..MaxTime
MaxRuns == 2          \* number of process executions explored
PageSize == 1         \* bookmarks the server returns per scan page
MaxN == 20            \* title length limits explored by the codec runs
MaxRawLen == 4        \* raw title lengths explored by the codec runs
MaxRetries == 2       \* consecutive timeouts explored for one scan request
MaxDeltaK == 2        \* message timestamps explored: thousands around the threshold
MaxLists == 2         \* lists in a reply to GET /lists explored by the list runs
MaxFaults == 3        \* failed calls, replies and kills explored in one behaviour

\* ------------------------------------------------------- program constants
EPOCH_ZERO_SECONDS == 0
INITIAL_STATE_ISO == 0
MAX_KARAKEEP_TITLE_LENGTH == 255
TITLE_ID_PREFIX == <<"[", "O", "W", "_", "I", "D", ":">>
TITLE_ID_SUFFIX == <<"]">>
TARGET_LIST_NAME == "Chats"
UntitledChat == <<"U","n","t","i","t","l","e","d"," ","C","h","a","t"," ">>
Ellipsis == <<".", ".", ".">>

\* the character class [a-zA-Z0-9\-] of the title pattern
IdChars ==
  {"a","b","c","d","e","f","g","h","i","j","k","l","m","n","o","p","q","r",
   "s","t","u","v","w","x","y","z","A","B","C","D","E","F","G","H","I","J",
   "K","L","M","N","O","P","Q","R","S","T","U","V","W","X","Y","Z","0","1",
   "2","3","4","5","6","7","8","9","-"}

\* ------------------------------------------------------------ environment
IdABC == <<"a", "b", "c">>
IdD1 == <<"d", "-", "1">>
Ids == {IdABC, IdD1}
Foo == <<"F", "o", "o">>
\* the title of each chat of the source: one titled chat, one untitled
TitleOf(id) == IF id = IdABC THEN Foo ELSE <<>>

\* --------------------------------------------------------------- helpers
Min(a, b) == IF a < b THEN a ELSE b
Max(a, b) == IF a > b THEN a ELSE b

\* python s[:n]
PySlice(s, n) ==
  IF n >= 0 THEN SubSeq(s, 1, Min(n, Len(s)))
            ELSE SubSeq(s, 1, Max(0, Len(s) + n))

StartsWith(s, p) == Len(s) >= Len(p) /\ SubSeq(s, 1, Len(p)) = p

\* length of the longest prefix of s made of characters of class C
RECURSIVE RunLen(_, _)
RunLen(s, C) ==
  IF s # <<>> /\ Head(s) \in C THEN 1 + RunLen(Tail(s), C) ELSE 0

\* ------------------------------------------------------------ title codec
\* id_tag_suffix = f" {TITLE_ID_PREFIX}{ow_chat_id}{TITLE_ID_SUFFIX}"
IdTagSuffix(ow_chat_id) ==
  <<" ">> \o TITLE_ID_PREFIX \o ow_chat_id \o TITLE_ID_SUFFIX

\* original_title = chat_row['title'] or "Untitled Chat <id>"
OriginalTitle(title, ow_chat_id) ==
  IF title # <<>> THEN title ELSE UntitledChat \o ow_chat_id

\* a budget for the title part that is the whole maximum length
AvailableTitleLengthWhole(N, tag) == N

\* available_title_length = MAX_KARAKEEP_TITLE_LENGTH - len(id_tag_suffix)
AvailableTitleLength(N, tag) == N - Len(tag)

\* a truncation that forgets to make room for the ellipsis
CombinedTitleNoRoom(title, ow_chat_id, N) ==
  LET tag == IdTagSuffix(ow_chat_id)
      original_title == OriginalTitle(title, ow_chat_id)
      available_title_length == N - Len(tag)
  IN  IF available_title_length < 0 THEN PySlice(tag, N)
      ELSE IF Len(original_title) > available_title_length
           THEN IF available_title_length >= 3
                THEN PySlice(original_title, available_title_length)
                       \o Ellipsis \o tag
                ELSE PySlice(original_title, available_title_length) \o tag
           ELSE original_title \o tag

\* combined_title of sync_or_update_chat_in_karakeep, for a maximum length N
CombinedTitle(title, ow_chat_id, N) ==
  LET tag == IdTagSuffix(ow_chat_id)
      original_title == OriginalTitle(title, ow_chat_id)
      available_title_length == AvailableTitleLength(N, tag)
  IN  IF available_title_length < 0 THEN PySlice(tag, N)
      ELSE IF Len(original_title) > available_title_length
           THEN IF available_title_length >= 3
                THEN PySlice(original_title, Max(0, available_title_length - 3))
                       \o Ellipsis \o tag
                ELSE PySlice(original_title, available_title_length) \o tag
           ELSE original_title \o tag

\* title_regex.match(title): re.match anchors the pattern
\* " \[OW_ID:([a-zA-Z0-9\-]+)\]$" at the START of the title; "$" accepts the
\* end of the string or a final newline.  Result: group(1), or <<>> for None.
TitleRegexMatch(title) ==
  LET pre == <<" ">> \o TITLE_ID_PREFIX
  IN  IF ~StartsWith(title, pre) THEN <<>>
      ELSE LET rest == SubSeq(title, Len(pre) + 1, Len(title))
               k == RunLen(rest, IdChars)
               tail == SubSeq(rest, k + 1, Len(rest))
           IN  IF k >= 1 /\ StartsWith(tail, TITLE_ID_SUFFIX)
                  /\ SubSeq(tail, Len(TITLE_ID_SUFFIX) + 1, Len(tail))
                       \in {<<>>, <<"\n">>}
               THEN SubSeq(rest, 1, k) ELSE <<>>

\* ---------------------------------------------------------------- formatter
\* A message timestamp n is held as thousands and rest, n = k * 1000 + r with
\* r in 0..999: the values around the threshold do not fit the 32-bit
\* integers of the model checker.
Big(k, r) == [k |-> k, r |-> r]
BigGt(a, b) == a.k > b.k \/ (a.k = b.k /\ a.r > b.r)

\* 3_000_000_000
MS_HEURISTIC_THRESHOLD == Big(3000000, 0)

\* a heuristic that takes the threshold itself for milliseconds
LooksLikeMillisFromThreshold(ts) == ~BigGt(MS_HEURISTIC_THRESHOLD, ts)

\* if ts_epoch_val > 3_000_000_000
LooksLikeMillis(ts) == BigGt(ts, MS_HEURISTIC_THRESHOLD)

\* ts_epoch_sec of format_conversation for an integer timestamp: the whole
\* seconds (thousands and rest again) and the milliseconds after them
TsEpochSec(ts) ==
  IF LooksLikeMillis(ts)
  THEN [unit |-> "ms", sec |-> Big(ts.k \div 1000, ts.k % 1000), ms |-> ts.r]
  ELSE [unit |-> "s", sec |-> ts, ms |-> 0]

\* ------------------------------------------------------------ state store
\* datetime.fromtimestamp(e, utc).isoformat(timespec='milliseconds')
EpochToISO(e) == e * 1000

\* int(datetime.fromisoformat(iso).timestamp())
ISOToEpoch(iso) == iso \div 1000

FileAbsent == [kind |-> "absent", last_sync_timestamp |-> 0]
FileValid(iso) == [kind |-> "valid", last_sync_timestamp |-> iso]

\* what open(STATE_FILE, 'w') followed by an unfinished json.dump leaves: an
\* empty file or a prefix of the JSON text, which json.load rejects
FileTorn == [kind |-> "badjson", last_sync_timestamp |-> 0]

\* files load_sync_state() rejects: text that is not JSON, JSON without the
\* key, a value that is not a string, a string that is not a timestamp.  The
\* field is what a reader that skipped the checks would take for the value.
InvalidKinds == {"badjson", "nokey", "notstring", "badstring"}
InvalidFiles ==
  {[kind |-> k, last_sync_timestamp |-> EpochToISO(1)] : k \in InvalidKinds}

\* the exception raised inside the try block of load_sync_state()
LoadException(file) ==
  CASE file.kind = "badjson" -> "JSONDecodeError"
    [] file.kind = "notstring" -> "TypeError"
    [] file.kind = "badstring" -> "ValueError"
    [] OTHER -> "none"

\* an except clause that leaves TypeError out
CaughtOnLoadNoTypeError == {"JSONDecodeError", "ValueError"}

\* except (json.JSONDecodeError, ValueError, TypeError)
CaughtOnLoad == {"JSONDecodeError", "ValueError", "TypeError"}

\* load_sync_state() lets an exception escape
LoadRaises(file) == LoadException(file) \notin CaughtOnLoad \cup {"none"}

\* load_sync_state(): the stored timestamp, or the default when the file is
\* absent or invalid
LoadSyncState(file) ==
  IF file.kind = "valid" THEN file.last_sync_timestamp ELSE INITIAL_STATE_ISO

\* the watermark a run starting now would query with
PersistedEpoch(file) == ISOToEpoch(LoadSyncState(file))

\* ----------------------------------------------------------------- state
VARIABLES
  stateFile,      \* content of STATE_FILE
  src,            \* rows of the OpenWebUI chat table: [id, title, updated_at]
  lists,          \* names of the Karakeep lists; a list's id is its index
  bookmarks,      \* Karakeep bookmarks; a bookmark's id is its index
  pc,             \* position of the process: idle (not running) or a step of main
  runNo,          \* number of process executions started
  exitCode,       \* exit status of the last execution (-1: none yet / running)
  phase,          \* reconciler state reached by the current / last execution
  last_sync_ts_epoch,
  karakeep_list_id,
  karakeep_item_map,
  current_cursor,
  chats_to_process,
  chats_processed_count,
  chats_synced_successfully,
  current_run_max_timestamp_epoch,
  results,        \* history: one entry per record attempted in this execution
  calls,          \* history: bookmark calls issued for the last attempted record
  fileAtStart,    \* history: stateFile when this execution started
  bookmarksAtStart, \* history: bookmarks when this execution started
  scanComplete,   \* history: the scan of this execution ended without an error
  runFailed,      \* history: the source query failed, the upsert of a
                  \* record returned False or the write of the state file
                  \* failed in this execution
  everFailed,     \* history: some destination call (a 404 on an update
                  \* included), source query or state write of any
                  \* execution failed
  lastRunClean,   \* history: the last finished execution reached the end of
                  \* main() with runFailed false
  srcChanged,     \* history: the source changed since the last source query
  sameSource,     \* history: this execution queried an unchanged source
  cleanBefore,    \* history: lastRunClean as it was when this execution queried
  items_processed, \* bookmarks handled by the scan of this execution
  scan_last,      \* history: cursor and response of the last scan request
  scan_timeouts,  \* history: timeouts of the scan request being retried
  query_last,     \* history: outcome of the source query of this execution
  save_last,      \* history: outcome of save_sync_state in this execution
  faults,         \* history: calls, replies and kills that went wrong so far
  cpc, cRaw, cId, cN, cTitle, cDecoded,  \* codec runs
  fTs,            \* formatter runs: the 'timestamp' of a message
  fOut,           \* formatter runs: what the formatter takes it to denote
  lIn,            \* list runs: the replies to GET /lists and POST /lists
  lOut            \* list runs: what find_or_create_karakeep_list did

sysVars == <<stateFile, src, lists, bookmarks, pc, runNo, exitCode, phase,
             last_sync_ts_epoch, karakeep_list_id, karakeep_item_map,
             current_cursor, chats_to_process, chats_processed_count,
             chats_synced_successfully, current_run_max_timestamp_epoch,
             results, calls, fileAtStart, bookmarksAtStart, scanComplete,
             runFailed, everFailed, lastRunClean, srcChanged, sameSource,
             cleanBefore, items_processed, scan_last, scan_timeouts,
             query_last, save_last, faults>>
scanVars == <<items_processed, scan_last, scan_timeouts>>
logVars == <<query_last, save_last>>
codecVars == <<cpc, cRaw, cId, cN, cTitle, cDecoded, fTs, fOut, lIn, lOut>>
vars == <<sysVars, codecVars>>

\* ------------------------------------------------------ destination server
NewBookmark(title, text) ==
  [title |-> title, text |-> text, inList |-> FALSE, list_id |-> 0,
   exists |-> TRUE]

\* ids of the bookmarks of the target list that come after the cursor
ListedAfter(bm, list_id, cursor) ==
  {i \in 1..Len(bm) :
     bm[i].exists /\ bm[i].inList /\ bm[i].list_id = list_id /\ i > cursor}

\* GET /lists/{id}/bookmarks?cursor=: the next PageSize bookmarks of the list
PageIds(bm, list_id, cursor) ==
  LET L == ListedAfter(bm, list_id, cursor)
  IN  {i \in L : Cardinality({j \in L : j < i}) < PageSize}

SetMax(S) == CHOOSE m \in S : \A x \in S : x <= m

\* nextCursor of the page: absent (0) on the last page
NextCursor(bm, list_id, cursor) ==
  LET P == PageIds(bm, list_id, cursor)
  IN  IF ListedAfter(bm, list_id, cursor) \ P # {} THEN SetMax(P) ELSE 0

\* the loop "for item in items" of get_karakeep_item_map_by_title: every
\* bookmark of the page whose title matches overwrites the entry of its id
MapAfterPage(item_map, bm, P) ==
  LET hits(id) == {i \in P : TitleRegexMatch(bm[i].title) = id}
      found == {TitleRegexMatch(bm[i].title) : i \in P} \ {<<>>}
  IN  [id \in (DOMAIN item_map) \cup found |->
         IF hits(id) # {} THEN SetMax(hits(id)) ELSE item_map[id]]

\* karakeep_item_map.get(ow_chat_id_str)
MapGet(item_map, id) == IF id \in DOMAIN item_map THEN item_map[id] ELSE 0

\* ----------------------------------------------------------------- upsert
UpdateOutcomes == {"ok", "404", "error", "timeout"}
CreateOutcomes == {"ok", "noid", "error", "timeout"}
LinkOutcomes == {"ok", "error", "timeout"}

Call(op, id) == [op |-> op, id |-> id]

\* a link step that reports success whatever the response
LinkSucceededAlways(ln) == TRUE

\* response_link.raise_for_status() passes
LinkSucceeded(ln) == ln = "ok"

\* an update whose 404 is not told apart from the other error statuses
UpdateNotFoundNever(upd) == FALSE

\* response.status_code == 404
UpdateNotFound(upd) == upd = "404"

\* sync_or_update_chat_in_karakeep(chat_row, text, list_id, existing_bookmark_id)
\* under the responses upd (PUT /bookmarks/id), cr (POST /bookmarks) and
\* ln (PUT /lists/id/bookmarks/id).  Yields the returned success flag, the
\* bookmarks afterwards, the calls issued and the id of the created bookmark.
\* A 404 on the update means the bookmark was deleted on the server since the
\* scan; a create answered without an id ("noid") has stored the bookmark; a
\* create that fails or times out has stored nothing.
Upsert(chat_row, formatted_conversation_text, list_id, existing_bookmark_id, upd, cr, ln, bm) ==
  LET combined_title ==
        CombinedTitle(chat_row.title, chat_row.id, MAX_KARAKEEP_TITLE_LENGTH)
      put == IF existing_bookmark_id # 0
             THEN <<Call("PUT_bookmark", existing_bookmark_id)>> ELSE <<>>
      bmPut == IF existing_bookmark_id = 0 THEN bm
               ELSE IF upd = "ok"
                    THEN [bm EXCEPT
                            ![existing_bookmark_id].title = combined_title,
                            ![existing_bookmark_id].text =
                               formatted_conversation_text]
               ELSE IF UpdateNotFound(upd)
                    THEN [bm EXCEPT ![existing_bookmark_id].exists = FALSE,
                                    ![existing_bookmark_id].inList = FALSE,
                                    ![existing_bookmark_id].list_id = 0]
               ELSE bm
      new_bookmark_id == Len(bm) + 1
      bmPost == Append(bmPut, NewBookmark(combined_title,
                                          formatted_conversation_text))
  IN  IF existing_bookmark_id # 0 /\ upd = "ok"
      THEN [success |-> TRUE, bm |-> bmPut, calls |-> put, new_id |-> 0]
      ELSE IF existing_bookmark_id # 0 /\ ~UpdateNotFound(upd)
      THEN [success |-> FALSE, bm |-> bmPut, calls |-> put, new_id |-> 0]
      ELSE IF cr \in {"error", "timeout"}
      THEN [success |-> FALSE, bm |-> bmPut,
            calls |-> Append(put, Call("POST_bookmarks", 0)), new_id |-> 0]
      ELSE IF cr = "noid"
      THEN [success |-> FALSE, bm |-> bmPost,
            calls |-> Append(put, Call("POST_bookmarks", 0)), new_id |-> 0]
      ELSE [success |-> LinkSucceeded(ln),
            bm |-> IF ln = "ok"
                   THEN [bmPost EXCEPT ![new_bookmark_id].inList = TRUE,
                                       ![new_bookmark_id].list_id = list_id]
                   ELSE bmPost,
            calls |-> put \o <<Call("POST_bookmarks", 0),
                               Call("PUT_list_bookmark", new_bookmark_id)>>,
            new_id |-> new_bookmark_id]

\* the responses that were actually requested, "none" for a call not issued
UsedUpd(existing, upd) == IF existing # 0 THEN upd ELSE "none"
UsedCr(existing, upd, cr) ==
  IF existing = 0 \/ UpdateNotFound(upd) THEN cr ELSE "none"
UsedLn(existing, upd, cr, ln) ==
  IF UsedCr(existing, upd, cr) = "ok" THEN ln ELSE "none"

\* -------------------------------------------------------- conversation body
\* what the 'chat' column of a row holds: a JSON object with a list of
\* well-formed messages ("ok"); NULL or the empty string ("empty"); the text
\* "{not json", which is not JSON ("badjson"); a JSON object without 'messages' or with an empty
\* or null one ("nomessages"); a list of messages one of which is not an
\* object or has a role that is not a string ("badmessage"); a 'messages'
\* that is a non-empty value other than a list ("notalist")
ChatKinds == {"ok", "empty", "badjson", "nomessages", "badmessage", "notalist"}

\* the text format_conversation returns for the one message
\* {role: user, content: hi, timestamp: 1000}: each message is followed by
\* the separator "\n\n---\n\n", strip() removes the blanks after the last one
Rendered == "**User** (1970-01-01 00:16:40 UTC):\nhi\n\n---"

\* the placeholder of "except json.JSONDecodeError as json_e", which carries
\* the message of the exception json.loads raises on "{not json"
InvalidJsonText ==
  "[ERROR: Invalid JSON structure in source database - Expecting property name enclosed in double quotes: line 1 column 2 (char 1)]"

\* a body left empty whenever the conversation cannot be rendered
FormattedTextEmptyOnError(chat) == IF chat = "ok" THEN Rendered ELSE ""

\* formatted_text of main() for a row: the text of format_conversation, or
\* the placeholder of the branch or handler that the chat column ends in
FormattedText(chat) ==
  CASE chat = "ok" -> Rendered
    [] chat = "empty" -> "[Chat JSON data missing in source database]"
    [] chat = "badjson" ->
         InvalidJsonText
    [] chat = "nomessages" -> "[No messages found in chat JSON data]"
    [] chat = "badmessage" -> "[ERROR: Unexpected error processing chat data]"
    [] chat = "notalist" -> ""

\* ------------------------------------------------------------ source reader
\* WHERE updated_at > ? with a comparison that also admits equality
ChangedSinceOrAt(updated_at, epoch) == updated_at >= epoch

\* WHERE updated_at > ?
ChangedSince(updated_at, epoch) == updated_at > epoch

\* the query without its ORDER BY: the rows changed since the watermark in
\* any order
QueryResultsUnordered(rows, epoch) ==
  LET M == {r \in rows : ChangedSince(r.updated_at, epoch)}
  IN  {s \in [1..Cardinality(M) -> M] :
         \A i, j \in DOMAIN s : i # j => s[i] # s[j]}

\* the possible results of the query: the rows changed since the watermark,
\* ORDER BY updated_at ASC (rows of equal updated_at in any order)
QueryResults(rows, epoch) ==
  LET M == {r \in rows : ChangedSince(r.updated_at, epoch)}
  IN  {s \in [1..Cardinality(M) -> M] :
         /\ \A i, j \in DOMAIN s : i # j => s[i] # s[j]
         /\ \A i, j \in DOMAIN s : i < j => s[i].updated_at <= s[j].updated_at}

\* ---------------------------------------------------------------- reconciler
\* the comparison of the max turned around
NewRunMaxReversed(sync_success, chat_updated_at_epoch, run_max) ==
  IF sync_success /\ chat_updated_at_epoch < run_max
  THEN chat_updated_at_epoch ELSE run_max

\* if sync_success: if chat_updated_at_epoch > current_run_max: ...
NewRunMax(sync_success, chat_updated_at_epoch, run_max) ==
  IF sync_success /\ chat_updated_at_epoch > run_max
  THEN chat_updated_at_epoch ELSE run_max

\* ------------------------------------------------------------------- Init
NoTimestamp == Big(0, 0)
NotFormatted == [unit |-> "none", sec |-> Big(0, 0), ms |-> 0]
NoListReplies == [get |-> "none", lists |-> <<>>, post |-> "none"]
NotListed == [list_id |-> 0, posted |-> FALSE, halted |-> FALSE]

CodecIdle ==
  /\ cpc = "off" /\ cRaw = <<>> /\ cId = <<>> /\ cN = 0
  /\ cTitle = <<>> /\ cDecoded = <<>>
  /\ fTs = NoTimestamp /\ fOut = NotFormatted
  /\ lIn = NoListReplies /\ lOut = NotListed

\* a bookmark of the target list whose whole title is the tag of IdABC
TagOnlyBookmark ==
  [title |-> IdTagSuffix(IdABC), text |-> "an earlier conversation",
   inList |-> TRUE, list_id |-> 1, exists |-> TRUE]

NoScanRequest == [cursor |-> 0, resp |-> "none", handled |-> 0]

\* the destination as a run may find it and the process not running
RunIdle ==
  /\ lists \in {<<>>, <<TARGET_LIST_NAME>>}
  /\ bookmarks \in {<<>>} \cup
       (IF lists = <<>> THEN {} ELSE {<<TagOnlyBookmark>>})
  /\ pc = "idle" /\ exitCode = -1 /\ phase = "None"
  /\ last_sync_ts_epoch = EPOCH_ZERO_SECONDS
  /\ karakeep_list_id = 0
  /\ karakeep_item_map = <<>>
  /\ current_cursor = 0
  /\ chats_to_process = <<>>
  /\ chats_processed_count = 0
  /\ chats_synced_successfully = 0
  /\ current_run_max_timestamp_epoch = 0
  /\ results = <<>> /\ calls = <<>>
  /\ fileAtStart = FileAbsent /\ bookmarksAtStart = <<>>
  /\ scanComplete = FALSE /\ runFailed = FALSE /\ everFailed = FALSE
  /\ lastRunClean = FALSE /\ srcChanged = TRUE
  /\ sameSource = FALSE /\ cleanBefore = FALSE
  /\ items_processed = 0 /\ scan_last = NoScanRequest /\ scan_timeouts = 0
  /\ query_last = "none" /\ save_last = "none"
  /\ faults = 0

\* the process not yet started
RunInit == runNo = 0 /\ RunIdle

SysInit ==
  /\ stateFile = FileAbsent
  /\ src = {}
  /\ RunInit

Init == SysInit /\ CodecIdle

\* n more calls of this step go wrong (a failed connection, an error status,
\* a timeout of an upsert request, a reply without the expected content, an
\* IOError, a kill); the timeouts of a scan request are bounded by MaxRetries
Fault(n) == faults + n <= MaxFaults /\ faults' = faults + n

\* 1 for a condition that holds, 0 for one that does not
Count(b) == IF b THEN 1 ELSE 0

\* ------------------------------------------------------------ environment
\* OpenWebUI inserts a chat row or touches an existing one.  main() reads the
\* table only in its query, so a change made while the process runs has the
\* effect of the same change made just before or just after that execution.
\* Changes are explored as long as an execution that can read them follows.
SourceChange ==
  /\ pc = "idle" /\ runNo < MaxRuns
  /\ \E id \in Ids, t \in 1..MaxTime :
       LET old == {r \in src : r.id = id}
       IN  \/ /\ old = {}
              /\ src' = src \cup
                   {[id |-> id, title |-> TitleOf(id), updated_at |-> t,
                     chat |-> "ok"]}
           \/ /\ \E r \in old :
                   /\ r.updated_at < t
                   /\ src' = (src \ {r}) \cup {[r EXCEPT !.updated_at = t]}
  /\ srcChanged' = TRUE
  /\ UNCHANGED <<stateFile, lists, bookmarks, pc, runNo, exitCode, phase,
                 last_sync_ts_epoch, karakeep_list_id, karakeep_item_map,
                 current_cursor, chats_to_process, chats_processed_count,
                 chats_synced_successfully, current_run_max_timestamp_epoch,
                 results, calls, fileAtStart, bookmarksAtStart, scanComplete,
                 runFailed, everFailed, lastRunClean, sameSource, cleanBefore,
                 scanVars, logVars, faults, codecVars>>

\* ---------------------------------------------------------------- the run
\* what a finished execution leaves behind for the history variables
EndRun(code, ph, clean) ==
  /\ pc' = "idle" /\ exitCode' = code /\ phase' = ph /\ lastRunClean' = clean

\* the entry point: configuration checks, then main() up to the DB connection
\* (load_sync_state, conversion of the ISO timestamp to epoch seconds)
EntryPoint ==
  /\ pc = "idle" /\ runNo < MaxRuns
  /\ runNo' = runNo + 1
  /\ results' = <<>> /\ calls' = <<>>
  /\ fileAtStart' = stateFile /\ bookmarksAtStart' = bookmarks
  /\ scanComplete' = FALSE /\ sameSource' = FALSE /\ cleanBefore' = FALSE
  /\ karakeep_list_id' = 0 /\ karakeep_item_map' = <<>> /\ current_cursor' = 0
  /\ chats_to_process' = <<>> /\ chats_processed_count' = 0
  /\ chats_synced_successfully' = 0
  /\ runFailed' = FALSE
  /\ items_processed' = 0 /\ scan_last' = NoScanRequest /\ scan_timeouts' = 0
  /\ query_last' = "none" /\ save_last' = "none"
  /\ \E config \in {"ok", "missing"} :
       /\ Fault(Count(config = "missing"))
       /\ IF config = "missing"
          THEN /\ EndRun(1, "ConfigError", FALSE)
               /\ UNCHANGED <<last_sync_ts_epoch,
                              current_run_max_timestamp_epoch>>
          ELSE IF LoadRaises(stateFile)
          THEN /\ EndRun(1, "Crashed", FALSE)
               /\ UNCHANGED <<last_sync_ts_epoch,
                              current_run_max_timestamp_epoch>>
          ELSE /\ pc' = "connect" /\ exitCode' = -1 /\ phase' = "Init"
               /\ last_sync_ts_epoch' = ISOToEpoch(LoadSyncState(stateFile))
               /\ current_run_max_timestamp_epoch' = 0
               /\ UNCHANGED lastRunClean
  /\ UNCHANGED <<stateFile, src, lists, bookmarks, everFailed, srcChanged,
                 codecVars>>

\* db_conn = get_db_connection(); "Halting run" and return when it is None
GetDbConnection ==
  /\ pc = "connect"
  /\ \E connected \in BOOLEAN :
       /\ Fault(Count(~connected))
       /\ IF connected
          THEN /\ pc' = "list"
               /\ UNCHANGED <<exitCode, phase, lastRunClean>>
          ELSE EndRun(0, "Aborted", FALSE)
  /\ UNCHANGED <<stateFile, src, lists, bookmarks, runNo, last_sync_ts_epoch,
                 karakeep_list_id, karakeep_item_map, current_cursor,
                 chats_to_process, chats_processed_count,
                 chats_synced_successfully, current_run_max_timestamp_epoch,
                 results, calls, fileAtStart, bookmarksAtStart, scanComplete,
                 runFailed, everFailed, srcChanged, sameSource, cleanBefore,
                 scanVars, logVars, codecVars>>

\* index of the first list with the requested name, 0 when there is none
FindList(ls, name) ==
  IF \E i \in 1..Len(ls) : ls[i] = name
  THEN CHOOSE i \in 1..Len(ls) :
         ls[i] = name /\ \A j \in 1..(i - 1) : ls[j] # name
  ELSE 0

\* a run that goes on without a list id
ListIdAccepted(list_id) == TRUE

\* "if not karakeep_list_id" does not halt the run
ListIdResolved(list_id) == list_id # 0

\* replies to GET /lists: 200 with the lists under 'lists', 200 with a body
\* of another shape, or a failure (status, transport, body that is not JSON)
GetListsReplies == {"ok", "nolists", "error"}

\* replies to POST /lists: 201 with the id at top level, with the id under
\* 'list', without an id, or a failure
PostListReplies == {"id", "list.id", "noid", "error"}

\* a create request sent whenever no list was found, fetched or not
CreateAttemptedOnAnyMiss(get, found) == found = 0

\* "if not list_id:" is reached when the GET raised nothing and the loop
\* over possible_lists returned nothing
CreateAttempted(get, found) == get # "error" /\ found = 0

\* find_or_create_karakeep_list(TARGET_LIST_NAME) under the reply get to
\* GET /lists, the server holding the lists ls, and the reply post to
\* POST /lists: the id returned (0: None), whether the POST was sent and
\* whether the server created the list
FindOrCreateKarakeepList(get, ls, post) ==
  LET possible_lists == IF get = "ok" THEN ls ELSE <<>>
      found == FindList(possible_lists, TARGET_LIST_NAME)
      posted == CreateAttempted(get, found)
  IN  [list_id |-> IF found # 0 THEN found
                   ELSE IF posted /\ post \in {"id", "list.id"}
                   THEN Len(ls) + 1 ELSE 0,
       posted |-> posted,
       created |-> posted /\ post # "error"]

\* karakeep_list_id = find_or_create_karakeep_list(TARGET_LIST_NAME) under the
\* responses get (GET /lists) and post (POST /lists); return when it is None
FindOrCreateList ==
  /\ pc = "list"
  /\ \E get \in GetListsReplies, post \in PostListReplies :
       LET o == FindOrCreateKarakeepList(get, lists, post)
           list_id == o.list_id
           failed == get # "ok" \/ (o.posted /\ post \in {"noid", "error"})
       IN  /\ Fault(Count(get # "ok")
                   + Count(o.posted /\ post \in {"noid", "error"}))
           /\ lists' = IF o.created THEN Append(lists, TARGET_LIST_NAME)
                       ELSE lists
           /\ karakeep_list_id' = list_id
           /\ everFailed' = (everFailed \/ failed)
           /\ IF ListIdResolved(list_id)
              THEN /\ pc' = "scan" /\ phase' = "ListResolved"
                   /\ UNCHANGED <<exitCode, lastRunClean>>
              ELSE EndRun(0, "Aborted", FALSE)
  /\ UNCHANGED <<stateFile, src, bookmarks, runNo, last_sync_ts_epoch,
                 karakeep_item_map, current_cursor, chats_to_process,
                 chats_processed_count, chats_synced_successfully,
                 current_run_max_timestamp_epoch, results, calls, fileAtStart,
                 bookmarksAtStart, scanComplete, runFailed, srcChanged,
                 sameSource, cleanBefore, scanVars, logVars, codecVars>>

\* except requests.exceptions.Timeout: ... continue, taken with the cursor
\* advanced to the page after the one that timed out
RetryCursorAdvanced(current, next) == next

\* except requests.exceptions.Timeout: ... continue leaves current_cursor as
\* it was when the request was sent
RetryCursor(current, next) == current

\* a loop that never clears has_more_pages
ScanDoneNever(next) == FALSE

\* if not current_cursor: has_more_pages = False
ScanDone(next) == next = 0

\* a scan that returns an empty map when it breaks off
MapOnScanErrorDropped(item_map) == <<>>

\* has_more_pages = False; break ... return item_map
MapOnScanError(item_map) == item_map

\* the first n bookmarks of a page
FirstOf(P, n) == {i \in P : Cardinality({x \in P : x < i}) < n}

\* a scan whose request error is raised to main() and ends the execution
ScanPageHalting ==
  /\ pc = "scan"
  /\ scan_last' = [cursor |-> current_cursor, resp |-> "error", handled |-> 0]
  /\ Fault(1)
  /\ EndRun(0, "Aborted", FALSE)
  /\ everFailed' = TRUE
  /\ UNCHANGED <<stateFile, src, lists, bookmarks, runNo,
                 last_sync_ts_epoch, karakeep_list_id, karakeep_item_map,
                 current_cursor, chats_to_process, chats_processed_count,
                 chats_synced_successfully, current_run_max_timestamp_epoch,
                 results, calls, fileAtStart, bookmarksAtStart, scanComplete,
                 runFailed, srcChanged, sameSource, cleanBefore,
                 items_processed, scan_timeouts, logVars, codecVars>>

\* one iteration of the while loop of get_karakeep_item_map_by_title: one
\* GET of a page of well-formed bookmarks under the response resp
ScanPage ==
  /\ pc = "scan"
  /\ \E resp \in {"ok", "timeout", "error"} :
       LET P == PageIds(bookmarks, karakeep_list_id, current_cursor)
           next == NextCursor(bookmarks, karakeep_list_id, current_cursor)
       IN  /\ Fault(Count(resp = "error"))
           /\ scan_last' =
                [cursor |-> current_cursor, resp |-> resp,
                 handled |-> IF resp = "ok" THEN Cardinality(P) ELSE 0]
           /\ \/ /\ resp = "ok" /\ P = {}
                 /\ pc' = "query" /\ phase' = "MapBuilt" /\ scanComplete' = TRUE
                 /\ scan_timeouts' = 0
                 /\ UNCHANGED <<karakeep_item_map, current_cursor, everFailed,
                                items_processed>>
              \/ /\ resp = "ok" /\ P # {}
                 /\ karakeep_item_map' =
                      MapAfterPage(karakeep_item_map, bookmarks, P)
                 /\ items_processed' = items_processed + Cardinality(P)
                 /\ current_cursor' = next
                 /\ scan_timeouts' = 0
                 /\ IF ScanDone(next)
                    THEN pc' = "query" /\ phase' = "MapBuilt"
                         /\ scanComplete' = TRUE
                    ELSE UNCHANGED <<pc, phase, scanComplete>>
                 /\ UNCHANGED everFailed
              \/ /\ resp = "timeout"
                 /\ scan_timeouts < MaxRetries
                 /\ scan_timeouts' = scan_timeouts + 1
                 /\ current_cursor' = RetryCursor(current_cursor, next)
                 /\ everFailed' = TRUE
                 /\ UNCHANGED <<pc, phase, scanComplete, karakeep_item_map,
                                items_processed>>
              \/ /\ resp = "error"
                 /\ pc' = "query" /\ phase' = "MapBuilt"
                 /\ scan_timeouts' = 0
                 /\ everFailed' = TRUE
                 /\ karakeep_item_map' = MapOnScanError(karakeep_item_map)
                 /\ UNCHANGED <<scanComplete, current_cursor, items_processed>>
  /\ UNCHANGED <<stateFile, src, lists, bookmarks, runNo, exitCode,
                 last_sync_ts_epoch, karakeep_list_id, chats_to_process,
                 chats_processed_count, chats_synced_successfully,
                 current_run_max_timestamp_epoch, results, calls, fileAtStart,
                 bookmarksAtStart, runFailed, lastRunClean, srcChanged,
                 sameSource, cleanBefore, logVars, codecVars>>

\* the same iteration over a page that holds, after n bookmarks, an element
\* that is not an object: item.get raises inside "for item in items", the
\* handler of Exception ends the scan
ScanPageBadItem ==
  /\ pc = "scan"
  /\ \E n \in 0..PageSize :
       LET P == PageIds(bookmarks, karakeep_list_id, current_cursor)
       IN  /\ n <= Cardinality(P)
           /\ Fault(1)
           /\ scan_last' =
                [cursor |-> current_cursor, resp |-> "error", handled |-> n]
           /\ karakeep_item_map' =
                MapOnScanError(MapAfterPage(karakeep_item_map, bookmarks,
                                            FirstOf(P, n)))
           /\ items_processed' = items_processed + n + 1
  /\ pc' = "query" /\ phase' = "MapBuilt"
  /\ scan_timeouts' = 0
  /\ everFailed' = TRUE
  /\ UNCHANGED <<stateFile, src, lists, bookmarks, runNo, exitCode,
                 last_sync_ts_epoch, karakeep_list_id, chats_to_process,
                 chats_processed_count, chats_synced_successfully,
                 current_run_max_timestamp_epoch, results, calls, fileAtStart,
                 bookmarksAtStart, runFailed, lastRunClean, srcChanged,
                 sameSource, cleanBefore, scanComplete, current_cursor,
                 logVars, codecVars>>

\* a failed query that leaves the rows fetched in chats_to_process
RowsOnQueryFailureKept(rows) == rows

\* except ...: chats_to_process = []
RowsOnQueryFailure(rows) == <<>>

\* the database query of main(): chats_to_process, empty when the query fails
QueryDb ==
  /\ pc = "query"
  /\ current_run_max_timestamp_epoch' = last_sync_ts_epoch
  /\ \E ok \in BOOLEAN :
       /\ \E rows \in QueryResults(src, last_sync_ts_epoch) :
            chats_to_process' = IF ok THEN rows ELSE RowsOnQueryFailure(rows)
       /\ query_last' = IF ok THEN "ok" ELSE "failed"
       /\ Fault(Count(~ok))
       /\ runFailed' = (runFailed \/ ~ok)
       /\ everFailed' = (everFailed \/ ~ok)
  /\ pc' = IF chats_to_process' # <<>> THEN "process" ELSE "finalize"
  /\ phase' = "Processing"
  /\ sameSource' = (runNo >= 2 /\ ~srcChanged)
  /\ cleanBefore' = lastRunClean
  /\ srcChanged' = FALSE
  /\ UNCHANGED <<stateFile, src, lists, bookmarks, runNo, exitCode,
                 last_sync_ts_epoch, karakeep_list_id, karakeep_item_map,
                 current_cursor, chats_processed_count,
                 chats_synced_successfully, results, calls, fileAtStart,
                 bookmarksAtStart, scanComplete, lastRunClean, save_last,
                 scanVars, codecVars>>

\* a loop left after its first record
LoopDoneEarly(count, n) == count >= 1

\* the for loop is exhausted
LoopDone(count, n) == count = n

\* one iteration of "for chat_row in chats_to_process"
ProcessRecord ==
  /\ pc = "process"
  /\ \E upd \in UpdateOutcomes, cr \in CreateOutcomes, ln \in LinkOutcomes :
       LET chat_row == chats_to_process[chats_processed_count + 1]
           existing_kk_id == MapGet(karakeep_item_map, chat_row.id)
           formatted_text == FormattedText(chat_row.chat)
           u == Upsert(chat_row, formatted_text, karakeep_list_id,
                       existing_kk_id, upd, cr, ln, bookmarks)
           uUpd == UsedUpd(existing_kk_id, upd)
           uCr == UsedCr(existing_kk_id, upd, cr)
           uLn == UsedLn(existing_kk_id, upd, cr, ln)
           failed == {uUpd, uCr, uLn} \ {"ok", "none"} # {}
       IN  /\ upd = (IF uUpd = "none" THEN "ok" ELSE upd)
           /\ cr = (IF uCr = "none" THEN "ok" ELSE cr)
           /\ ln = (IF uLn = "none" THEN "ok" ELSE ln)
           /\ Fault(Count(uUpd \notin {"ok", "none"})
                   + Count(uCr \notin {"ok", "none"})
                   + Count(uLn \notin {"ok", "none"}))
           /\ bookmarks' = u.bm
           /\ calls' = u.calls
           /\ chats_processed_count' = chats_processed_count + 1
           /\ chats_synced_successfully' =
                chats_synced_successfully + (IF u.success THEN 1 ELSE 0)
           /\ current_run_max_timestamp_epoch' =
                NewRunMax(u.success, chat_row.updated_at,
                          current_run_max_timestamp_epoch)
           /\ results' = Append(results,
                [id |-> chat_row.id, updated_at |-> chat_row.updated_at,
                 text |-> formatted_text,
                 existing |-> existing_kk_id, upd |-> uUpd, cr |-> uCr,
                 ln |-> uLn, new_id |-> u.new_id, success |-> u.success,
                 max_before |-> current_run_max_timestamp_epoch,
                 max_after |-> current_run_max_timestamp_epoch'])
           /\ runFailed' = (runFailed \/ ~u.success)
           /\ everFailed' = (everFailed \/ failed)
  /\ pc' = IF LoopDone(chats_processed_count', Len(chats_to_process))
           THEN "finalize" ELSE "process"
  /\ UNCHANGED <<stateFile, src, lists, runNo, exitCode, phase,
                 last_sync_ts_epoch, karakeep_list_id, karakeep_item_map,
                 current_cursor, chats_to_process, fileAtStart,
                 bookmarksAtStart, scanComplete, lastRunClean, srcChanged,
                 sameSource, cleanBefore, scanVars, logVars, codecVars>>

\* save_sync_state finishes, open(STATE_FILE, 'w') raises IOError, or the
\* write or the close raises IOError after the open has truncated the file
SaveOutcomes == {"ok", "ioerror_open", "ioerror_write"}

\* the state file after save_sync_state({'last_sync_timestamp': iso}): the
\* IOError is caught, a failed open leaves the file, a failed write leaves
\* what the truncation and the unfinished json.dump left
FileAfterSave(file, save, iso) ==
  CASE save = "ok" -> FileValid(iso)
    [] save = "ioerror_open" -> file
    [] save = "ioerror_write" -> FileTorn

\* a state file saved whenever the run ends
TimestampAdvancedOrNot(run_max, last) == run_max >= last

\* if current_run_max_timestamp_epoch > last_sync_ts_epoch:
TimestampAdvanced(run_max, last) == run_max > last

\* "Finalize Run & Save State": save_sync_state under the outcome save of the
\* write, then the summary and the normal end of the process
Finalize ==
  /\ pc = "finalize"
  /\ \E save \in SaveOutcomes :
       IF TimestampAdvanced(current_run_max_timestamp_epoch, last_sync_ts_epoch)
       THEN /\ stateFile' =
                 FileAfterSave(stateFile, save,
                               EpochToISO(current_run_max_timestamp_epoch))
            /\ save_last' = IF save = "ok" THEN "ok" ELSE "ioerror"
            /\ Fault(Count(save # "ok"))
            /\ runFailed' = (runFailed \/ save # "ok")
            /\ everFailed' = (everFailed \/ save # "ok")
            /\ EndRun(0, "Finalized", ~runFailed /\ save = "ok")
       ELSE /\ save = "ok"
            /\ EndRun(0, "Finalized", ~runFailed)
            /\ UNCHANGED <<stateFile, runFailed, everFailed, save_last,
                           faults>>
  /\ UNCHANGED <<src, lists, bookmarks, runNo, last_sync_ts_epoch,
                 karakeep_list_id, karakeep_item_map, current_cursor,
                 chats_to_process, chats_processed_count,
                 chats_synced_successfully, current_run_max_timestamp_epoch,
                 results, calls, fileAtStart, bookmarksAtStart, scanComplete,
                 srcChanged, sameSource, cleanBefore, query_last, scanVars,
                 codecVars>>

Next ==
  \/ SourceChange
  \/ EntryPoint
  \/ GetDbConnection
  \/ FindOrCreateList
  \/ ScanPage
  \/ QueryDb
  \/ ProcessRecord
  \/ Finalize

Spec == Init /\ [][Next]_vars

\* ------------------------------------------- runs over a given environment
\* state files a run may find
FileChoices ==
  {FileAbsent, FileValid(EpochToISO(1)), FileValid(EpochToISO(1) + 500)}
    \cup InvalidFiles

\* chat tables a run may find: each id absent (0) or updated at some time
SrcChoices ==
  {{[id |-> id, title |-> TitleOf(id), updated_at |-> f[id], chat |-> "ok"] :
      id \in {i \in Ids : f[i] > 0}} : f \in [Ids -> 0..MaxTime]}

InitRun ==
  /\ stateFile \in FileChoices
  /\ src \in SrcChoices
  /\ RunInit
  /\ CodecIdle

\* the steps of the process, the chat table left alone
NextRun ==
  \/ EntryPoint
  \/ GetDbConnection
  \/ FindOrCreateList
  \/ ScanPage
  \/ QueryDb
  \/ ProcessRecord
  \/ Finalize

SpecRun == InitRun /\ [][NextRun]_vars

\* ------------------------------------------------------- killed processes
\* the process is terminated from outside (SIGKILL, power loss) before its
\* next step
Kill ==
  /\ pc # "idle"
  /\ Fault(1)
  /\ EndRun(137, "Killed", FALSE)
  /\ UNCHANGED <<stateFile, src, lists, bookmarks, runNo, last_sync_ts_epoch,
                 karakeep_list_id, karakeep_item_map, current_cursor,
                 chats_to_process, chats_processed_count,
                 chats_synced_successfully, current_run_max_timestamp_epoch,
                 results, calls, fileAtStart, bookmarksAtStart, scanComplete,
                 runFailed, everFailed, srcChanged, sameSource, cleanBefore,
                 scanVars, logVars, codecVars>>

\* the process is terminated inside save_sync_state(): after
\* open(STATE_FILE, 'w') has truncated the file and either before json.dump
\* and the close have put the whole text on disk (torn) or after (written)
KillDuringSave ==
  /\ pc = "finalize"
  /\ current_run_max_timestamp_epoch > last_sync_ts_epoch
  /\ \E left \in {"torn", "written"} :
       stateFile' =
         IF left = "torn"
         THEN FileTorn
         ELSE FileValid(EpochToISO(current_run_max_timestamp_epoch))
  /\ EndRun(137, "KilledInSave", FALSE)
  /\ Fault(1)
  /\ everFailed' = TRUE
  /\ save_last' = "killed"
  /\ UNCHANGED <<src, lists, bookmarks, runNo, last_sync_ts_epoch,
                 karakeep_list_id, karakeep_item_map, current_cursor,
                 chats_to_process, chats_processed_count,
                 chats_synced_successfully, current_run_max_timestamp_epoch,
                 results, calls, fileAtStart, bookmarksAtStart, scanComplete,
                 runFailed, srcChanged, sameSource, cleanBefore,
                 query_last, scanVars, codecVars>>

\* the process is terminated inside find_or_create_karakeep_list(): the
\* fetch showed no list of the name, the server has handled POST /lists and
\* the process ends before it reads the reply
KillDuringListCreate ==
  /\ pc = "list"
  /\ \E get \in GetListsReplies :
       /\ FindOrCreateKarakeepList(get, lists, "id").posted
       /\ Fault(1 + Count(get # "ok"))
       /\ everFailed' = (everFailed \/ get # "ok")
  /\ lists' = Append(lists, TARGET_LIST_NAME)
  /\ EndRun(137, "Killed", FALSE)
  /\ UNCHANGED <<stateFile, src, bookmarks, runNo, last_sync_ts_epoch,
                 karakeep_list_id, karakeep_item_map, current_cursor,
                 chats_to_process, chats_processed_count,
                 chats_synced_successfully, current_run_max_timestamp_epoch,
                 results, calls, fileAtStart, bookmarksAtStart, scanComplete,
                 runFailed, srcChanged, sameSource, cleanBefore, scanVars,
                 logVars, codecVars>>

\* the process is terminated inside sync_or_update_chat_in_karakeep(), which
\* waits at the update (414), the create (432) and the link request (445):
\* the server has handled the first n requests of the record, the update
\* answered upd and the others 200, and the process ends before it goes on,
\* so the record is not counted.  A request the server never received leaves
\* the bookmarks as a request that timed out does.
KillDuringRecord ==
  /\ pc = "process"
  /\ \E upd \in {"ok", "404"}, n \in 1..3 :
       LET chat_row == chats_to_process[chats_processed_count + 1]
           existing_kk_id == MapGet(karakeep_item_map, chat_row.id)
           formatted_text == FormattedText(chat_row.chat)
           all == Upsert(chat_row, formatted_text, karakeep_list_id,
                         existing_kk_id, upd, "ok", "ok", bookmarks)
           k == IF existing_kk_id # 0 THEN 1 ELSE 0
           cr == IF n >= k + 1 THEN "ok" ELSE "timeout"
           ln == IF n >= k + 2 THEN "ok" ELSE "timeout"
           u == Upsert(chat_row, formatted_text, karakeep_list_id,
                       existing_kk_id, upd, cr, ln, bookmarks)
           uUpd == UsedUpd(existing_kk_id, upd)
       IN  /\ upd = (IF uUpd = "none" THEN "ok" ELSE upd)
           /\ n <= Len(all.calls)
           /\ Fault(1 + Count(uUpd = "404"))
           /\ bookmarks' = u.bm
           /\ calls' = SubSeq(all.calls, 1, n)
           /\ everFailed' = (everFailed \/ uUpd = "404")
  /\ EndRun(137, "Killed", FALSE)
  /\ UNCHANGED <<stateFile, src, lists, runNo, last_sync_ts_epoch,
                 karakeep_list_id, karakeep_item_map, current_cursor,
                 chats_to_process, chats_processed_count,
                 chats_synced_successfully, current_run_max_timestamp_epoch,
                 results, fileAtStart, bookmarksAtStart, scanComplete,
                 runFailed, srcChanged, sameSource, cleanBefore, scanVars,
                 logVars, codecVars>>

NextKill ==
  \/ NextRun
  \/ Kill
  \/ KillDuringSave
  \/ KillDuringListCreate
  \/ KillDuringRecord

SpecKill == InitRun /\ [][NextKill]_vars

\* ------------------------------------------ scans over malformed pages
NextScan ==
  \/ NextRun
  \/ ScanPageBadItem

\* a run that finds no state file
InitScan == InitRun /\ stateFile = FileAbsent

SpecScan == InitScan /\ [][NextScan]_vars

\* ------------------------------------------------------ runs that go on
\* a started process takes its next step: Python runs main() to its end, and
\* every request of the scan is answered after at most MaxRetries timeouts
Fairness ==
  /\ WF_vars(GetDbConnection)
  /\ WF_vars(FindOrCreateList)
  /\ WF_vars(ScanPage)
  /\ WF_vars(QueryDb)
  /\ WF_vars(ProcessRecord)
  /\ WF_vars(Finalize)

\* a first run over a chat table that holds every chat
InitLive ==
  /\ stateFile = FileAbsent
  /\ src \in {t \in SrcChoices : Cardinality(t) = Cardinality(Ids)}
  /\ RunInit
  /\ CodecIdle

SpecLive == InitLive /\ [][NextRun]_vars /\ Fairness

\* --------------------------------------------------------------- codec runs
RawChars == {"F", "."}
RawTitles == UNION {[1..n -> RawChars] : n \in 0..MaxRawLen}
CodecIds == {IdABC, IdD1, <<"7">>}

InitCodec ==
  /\ SysInit /\ lists = <<>>
  /\ cpc = "input"
  /\ cRaw \in RawTitles /\ cId \in CodecIds /\ cN \in 0..MaxN
  /\ cTitle = <<>> /\ cDecoded = <<>>
  /\ fTs = NoTimestamp /\ fOut = NotFormatted
  /\ lIn = NoListReplies /\ lOut = NotListed

\* encode: the title of the payload for (cRaw, cId) under maximum length cN
Encode ==
  /\ cpc = "input"
  /\ cTitle' = CombinedTitle(cRaw, cId, cN)
  /\ cpc' = "encoded"
  /\ UNCHANGED <<sysVars, cRaw, cId, cN, cDecoded, fTs, fOut, lIn, lOut>>

\* decode: the scan's match applied to the encoded title
Decode ==
  /\ cpc = "encoded"
  /\ cDecoded' = TitleRegexMatch(cTitle)
  /\ cpc' = "decoded"
  /\ UNCHANGED <<sysVars, cRaw, cId, cN, cTitle, fTs, fOut, lIn, lOut>>

NextCodec == Encode \/ Decode

SpecCodec == InitCodec /\ [][NextCodec]_vars

\* ----------------------------------------------------------- formatter runs
\* message timestamps: every integer within MaxDeltaK thousands of the
\* threshold, and 0, 1_700_000_000 and 4_000_000_000
TsInputs ==
  {Big(k, r) : k \in (MS_HEURISTIC_THRESHOLD.k - MaxDeltaK) ..
                       (MS_HEURISTIC_THRESHOLD.k + MaxDeltaK),
               r \in 0..999}
    \cup {Big(0, 0), Big(1700000, 0), Big(4000000, 0)}

InitFormat ==
  /\ SysInit /\ lists = <<>> /\ bookmarks = <<>>
  /\ cpc = "timestamp"
  /\ fTs \in TsInputs /\ fOut = NotFormatted
  /\ cRaw = <<>> /\ cId = <<>> /\ cN = 0 /\ cTitle = <<>> /\ cDecoded = <<>>
  /\ lIn = NoListReplies /\ lOut = NotListed

\* the unit decision of format_conversation for one message
FormatTimestamp ==
  /\ cpc = "timestamp"
  /\ fOut' = TsEpochSec(fTs)
  /\ cpc' = "formatted"
  /\ UNCHANGED <<sysVars, cRaw, cId, cN, cTitle, cDecoded, fTs, lIn, lOut>>

NextFormat == FormatTimestamp

SpecFormat == InitFormat /\ [][NextFormat]_vars

\* ------------------------------------------- runs over damaged chat columns
\* chat tables that hold every chat, the chat column of each of any kind
BodySrcChoices ==
  {{[id |-> id, title |-> TitleOf(id), updated_at |-> f[id], chat |-> c[id]] :
      id \in Ids} : f \in [Ids -> 1..MaxTime], c \in [Ids -> ChatKinds]}

\* one execution, the last of those explored, over such a table
InitBody ==
  /\ stateFile = FileAbsent
  /\ src \in BodySrcChoices
  /\ runNo = MaxRuns - 1 /\ RunIdle
  /\ CodecIdle

SpecBody == InitBody /\ [][NextRun]_vars

\* ----------------------------------------------------------------- list runs
\* names of lists the server may hold: the requested one, the same in lower
\* case, another one
ListNames == {TARGET_LIST_NAME, "chats", "Inbox"}
ListChoices == UNION {[1..n -> ListNames] : n \in 0..MaxLists}

InitList ==
  /\ SysInit /\ lists = <<>> /\ bookmarks = <<>>
  /\ cpc = "list"
  /\ lIn \in [get : GetListsReplies, lists : ListChoices,
               post : PostListReplies]
  /\ lOut = NotListed
  /\ cRaw = <<>> /\ cId = <<>> /\ cN = 0 /\ cTitle = <<>> /\ cDecoded = <<>>
  /\ fTs = NoTimestamp /\ fOut = NotFormatted

\* karakeep_list_id = find_or_create_karakeep_list(TARGET_LIST_NAME) and the
\* test "if not karakeep_list_id" of main()
FindOrCreateListCall ==
  /\ cpc = "list"
  /\ lOut' = LET o == FindOrCreateKarakeepList(lIn.get, lIn.lists, lIn.post)
             IN  [list_id |-> o.list_id, posted |-> o.posted,
                  halted |-> ~ListIdResolved(o.list_id)]
  /\ cpc' = "listed"
  /\ UNCHANGED <<sysVars, cRaw, cId, cN, cTitle, cDecoded, fTs, fOut, lIn>>

NextList == FindOrCreateListCall

SpecList == InitList /\ [][NextList]_vars

\* ================================================================== claims
Last(s) == s[Len(s)]
EndsWith(s, p) ==
  Len(s) >= Len(p) /\ SubSeq(s, Len(s) - Len(p) + 1, Len(s)) = p
RunEnded == pc = "idle" /\ phase = "Finalized"

\* the bookmarks of the target list whose title carries the tag of id at its end
TaggedInList(bm, id) ==
  {i \in 1..Len(bm) :
     bm[i].exists /\ bm[i].inList /\ EndsWith(bm[i].title, IdTagSuffix(id))}

\* C1: after a run, no record whose upsert failed in that run has an
\* updated_at at or below the watermark the run left in the state file.
C1_FailedRecordsAboveWatermark ==
  RunEnded =>
    \A k \in DOMAIN results :
      ~results[k].success =>
        results[k].updated_at > PersistedEpoch(stateFile)

\* C2: as long as no call has failed in any run, the target list holds at
\* most one bookmark per source identifier (a record created in an earlier
\* run that changes later is updated, never created again).
C2_AtMostOneItemPerSourceId ==
  ~everFailed =>
    \A id \in Ids : Cardinality(TaggedInList(bookmarks, id)) <= 1

\* C3 (as stated): a run that follows another run with no source change in
\* between adds no bookmark and leaves the state file as it found it.
C3_SecondRunChangesNothing ==
  (RunEnded /\ sameSource) =>
    /\ Len(bookmarks) = Len(bookmarksAtStart)
    /\ stateFile = fileAtStart

\* C3 (amended): a run that follows, with no source change in between, a run
\* whose source query succeeded, whose records were all synced and whose
\* state write did not fail, adds no bookmark and leaves the state file as
\* it found it.
C3_SecondRunAfterCleanRunChangesNothing ==
  (RunEnded /\ sameSource /\ cleanBefore) =>
    /\ Len(bookmarks) = Len(bookmarksAtStart)
    /\ stateFile = fileAtStart

C3_Witness ==
  /\ RunEnded /\ sameSource /\ cleanBefore
  /\ fileAtStart.kind = "valid"
  /\ bookmarksAtStart # <<>>
  /\ src # {}

\* C4: for N >= len(tag), decoding the encoded title returns the identifier.
C4_TitleRoundTrip ==
  (cpc = "decoded" /\ cN >= Len(IdTagSuffix(cId))) => cDecoded = cId

\* C5: the watermark held by the state file (the timestamp the next load
\* returns) is never less than it was when the current (or last) run started,
\* whatever the outcomes of the run's records and of its save.
C5_WatermarkMonotonic ==
  LoadSyncState(stateFile) >= LoadSyncState(fileAtStart)

\* C6: the encoded title is never longer than the maximum length N, also
\* when N is smaller than the tag.
C6_LengthBound ==
  cpc \in {"encoded", "decoded"} => Len(cTitle) <= cN

C6_Witness ==
  /\ cpc = "encoded"
  /\ cN - Len(IdTagSuffix(cId)) >= 3
  /\ Len(OriginalTitle(cRaw, cId)) > cN - Len(IdTagSuffix(cId))
  /\ Len(cTitle) = cN

\* C7: a record for which the target list held, when the run started, a
\* bookmark titled <non-empty prefix><tag of the record> is matched by a
\* completed scan: its upsert gets that bookmark's id and issues no create
\* call unless the update answers 404.
C7_TaggedItemTakesUpdatePath ==
  \A k \in DOMAIN results :
    LET r == results[k]
        tagged == {i \in TaggedInList(bookmarksAtStart, r.id) :
                     Len(bookmarksAtStart[i].title) > Len(IdTagSuffix(r.id))}
    IN  (scanComplete /\ tagged # {}) =>
          /\ r.existing \in tagged
          /\ r.upd # "404" => r.cr = "none"

\* C8: a record with no matching bookmark whose calls all succeed gets
\* exactly one create call followed by one link call for the created
\* bookmark and no update call, and the in-memory maximum becomes its
\* updated_at; when nothing fails in the run, the state file then holds the
\* ISO form of the last record's updated_at.
C8_CreatePath ==
  /\ results # <<>> =>
       LET r == Last(results)
       IN  (r.existing = 0 /\ r.cr = "ok" /\ r.ln = "ok") =>
             /\ calls = <<Call("POST_bookmarks", 0),
                          Call("PUT_list_bookmark", r.new_id)>>
             /\ r.new_id = Len(bookmarks)
             /\ bookmarks[r.new_id].exists /\ bookmarks[r.new_id].inList
             /\ r.success
             /\ r.max_after = r.updated_at
  /\ (RunEnded /\ lastRunClean /\ results # <<>>
        /\ Last(results).existing = 0) =>
       /\ stateFile = FileValid(EpochToISO(Last(results).updated_at))
       /\ PersistedEpoch(stateFile) = Last(results).updated_at
       /\ current_run_max_timestamp_epoch = Last(results).updated_at

C8_Witness ==
  /\ RunEnded /\ lastRunClean
  /\ Len(results) = 1
  /\ Last(results).id = IdABC /\ Last(results).existing = 0
  /\ Last(results).cr = "ok" /\ Last(results).ln = "ok"
  /\ PersistedEpoch(fileAtStart) = 0
  /\ PersistedEpoch(stateFile) = Last(results).updated_at

\* C9: when the create call succeeds and the link call fails, the upsert
\* reports failure, the created bookmark exists outside the target list and
\* the in-memory maximum is what it was before the record.
C9_PartialCreateFailure ==
  \A k \in DOMAIN results :
    LET r == results[k]
    IN  (r.cr = "ok" /\ r.ln \in {"error", "timeout"}) =>
          /\ ~r.success
          /\ r.new_id \in 1..Len(bookmarks)
          /\ bookmarks[r.new_id].exists /\ ~bookmarks[r.new_id].inList
          /\ r.max_after = r.max_before

C9_Witness ==
  \E k \in DOMAIN results :
    /\ results[k].cr = "ok" /\ results[k].ln = "error"
    /\ results[k].updated_at > results[k].max_before
    /\ ~bookmarks[results[k].new_id].inList

\* C10: the process exits non-zero exactly when configuration is missing or
\* the setup failed (no source connection, no list id), zero otherwise.
C10_ExitStatus ==
  (pc = "idle" /\ runNo > 0) =>
    /\ phase \in {"ConfigError", "Aborted"} => exitCode # 0
    /\ phase = "Finalized" => exitCode = 0

\* C11: the state file is written at most once per execution and only by the
\* finalizing step, which ends the execution and runs after every fetched
\* record has been attempted; while an execution runs, and after it was
\* aborted or killed before its save, the file is the one found at its start
C11_WrittenOnceAtFinalize ==
  /\ [][stateFile' # stateFile =>
          /\ pc = "finalize" /\ pc' = "idle"
          /\ chats_processed_count = Len(chats_to_process)
          /\ Len(results) = Len(chats_to_process)]_vars
  /\ [](pc # "idle" => stateFile = fileAtStart)
  /\ [](phase \in {"Aborted", "Killed"} => stateFile = fileAtStart)

\* an execution killed after it had synced a record above its watermark
C11_Witness ==
  /\ pc = "idle" /\ phase = "Killed" /\ fileAtStart.kind = "valid"
  /\ Len(results) >= 1 /\ results[1].success
  /\ results[1].updated_at > last_sync_ts_epoch

\* C12: an execution that started its run ends before the finalizing step
\* only from the connection step or from the list step with no list id, and
\* then as Aborted; an Aborted execution has attempted no record, changed no
\* bookmark and left the state file as found; from the scan onwards every
\* execution ends as Finalized
C12_EarlyEndOnlyOnSetupFailure ==
  /\ [][(pc # "idle" /\ pc' = "idle" /\ phase' # "Finalized") =>
          /\ pc \in {"connect", "list"}
          /\ phase' = "Aborted"
          /\ (pc = "list" => karakeep_list_id' = 0)]_vars
  /\ [](phase = "Aborted" =>
          /\ results = <<>> /\ calls = <<>>
          /\ bookmarks = bookmarksAtStart
          /\ stateFile = fileAtStart)

\* a second execution aborted without a list id, a watermark and a bookmark
\* being there from the first
C12_Witness ==
  /\ pc = "idle" /\ phase = "Aborted" /\ runNo = 2
  /\ karakeep_list_id = 0 /\ scan_last.resp = "none"
  /\ fileAtStart.kind = "valid" /\ bookmarksAtStart # <<>>

\* C13: after a process was killed inside the save of a new watermark over a
\* valid state file, the file is valid and holds the previous or the new
\* timestamp, so that the next load does not return the default
C13_SaveCrashSafe ==
  (phase = "KilledInSave" /\ fileAtStart.kind = "valid") =>
    /\ stateFile.kind = "valid"
    /\ LoadSyncState(stateFile) \in
         {LoadSyncState(fileAtStart),
          EpochToISO(current_run_max_timestamp_epoch)}

\* C14: whatever state file an execution finds, loading it does not end the
\* execution; a file that is absent, not JSON, without the key, or whose
\* value is not a string or not a timestamp loads as the epoch-zero default
\* and the run goes on with watermark 0; a valid file loads as exactly the
\* timestamp it holds
C14_LoadNeverFailsRun ==
  /\ phase # "Crashed"
  /\ LoadSyncState(fileAtStart) =
       IF fileAtStart.kind = "valid"
       THEN fileAtStart.last_sync_timestamp
       ELSE INITIAL_STATE_ISO
  /\ pc # "idle" =>
       last_sync_ts_epoch =
         IF fileAtStart.kind = "valid"
         THEN ISOToEpoch(fileAtStart.last_sync_timestamp)
         ELSE EPOCH_ZERO_SECONDS

\* a run over a state file whose value is not a string, processing every
\* row of the chat table
C14_Witness ==
  /\ pc = "process" /\ fileAtStart.kind = "notstring"
  /\ last_sync_ts_epoch = EPOCH_ZERO_SECONDS
  /\ Len(chats_to_process) = Cardinality(src) /\ Cardinality(src) = 2

\* C15: an integer message timestamp above 3,000,000,000 is taken as
\* milliseconds and divided by 1000; any other one, 3,000,000,000 itself
\* included, is taken as seconds; 4,000,000,000 is taken as milliseconds and
\* 1,700,000,000 as seconds
C15_MillisecondHeuristic ==
  cpc = "formatted" =>
    /\ IF fTs.k > 3000000 \/ (fTs.k = 3000000 /\ fTs.r >= 1)
       THEN /\ fOut.unit = "ms"
            /\ fOut.sec.k * 1000 + fOut.sec.r = fTs.k
            /\ fOut.ms = fTs.r
       ELSE /\ fOut.unit = "s"
            /\ fOut.sec = fTs
            /\ fOut.ms = 0
    /\ fTs = Big(4000000, 0) => (fOut.unit = "ms" /\ fOut.sec = Big(4000, 0))
    /\ fTs = Big(1700000, 0) => (fOut.unit = "s" /\ fOut.sec = Big(1700000, 0))

\* the threshold itself, formatted as seconds
C15_Witness ==
  /\ cpc = "formatted" /\ fTs = Big(3000000, 0)
  /\ fOut = [unit |-> "s", sec |-> Big(3000000, 0), ms |-> 0]

\* C16: the attempts of an execution are, in the same order, the fetched
\* records: one attempt per record, none attempted twice, in ascending
\* updated_at; when the loop is over every fetched record has been attempted,
\* whatever attempts failed before
C16_OneAttemptPerRecordInOrder ==
  /\ Len(results) = chats_processed_count
  /\ Len(results) <= Len(chats_to_process)
  /\ \A k \in DOMAIN results :
       /\ results[k].id = chats_to_process[k].id
       /\ results[k].updated_at = chats_to_process[k].updated_at
  /\ \A i, j \in DOMAIN results :
       i < j => /\ results[i].id # results[j].id
                /\ results[i].updated_at <= results[j].updated_at
  /\ (pc = "finalize" \/ RunEnded) => Len(results) = Len(chats_to_process)

\* a run whose first record timed out on its create and whose second, later
\* record was synced
C16_Witness ==
  /\ RunEnded /\ Len(results) = 2
  /\ ~results[1].success /\ results[1].cr = "timeout"
  /\ results[2].success
  /\ results[1].updated_at < results[2].updated_at

\* the steps from one reconciler state to the next: a new execution after
\* the end of the last, and within an execution Init, ListResolved, MapBuilt,
\* Processing, Finalized, with Aborted reachable from Init only
PhaseSteps ==
  {<<f, t>> : f \in {"None", "Finalized", "Aborted", "ConfigError"},
              t \in {"Init", "ConfigError"}}
    \cup {<<"Init", "ListResolved">>, <<"Init", "Aborted">>,
          <<"ListResolved", "MapBuilt">>, <<"MapBuilt", "Processing">>,
          <<"Processing", "Finalized">>}

\* C17: the reconciler states follow each other in the order Init,
\* ListResolved, MapBuilt, Processing, Finalized; a scan request is sent only
\* with a resolved list id; records are fetched and attempted only after the
\* scan has ended; the state file is written only by the step that leaves
\* Processing, after the last attempt
C17_PhaseOrder ==
  /\ [][phase' # phase => <<phase, phase'>> \in PhaseSteps]_vars
  /\ []((pc = "scan" \/ scan_last.resp # "none") =>
          /\ karakeep_list_id # 0
          /\ phase \in {"ListResolved", "MapBuilt", "Processing", "Finalized"})
  /\ []((chats_to_process # <<>> \/ results # <<>>) =>
          /\ phase \in {"Processing", "Finalized"}
          /\ scan_last.resp \in {"ok", "error"} /\ scan_timeouts = 0)
  /\ [](pc = "scan" => phase = "ListResolved")
  /\ [][stateFile' # stateFile =>
          /\ phase = "Processing" /\ phase' = "Finalized"
          /\ chats_processed_count = Len(chats_to_process)]_vars

\* a run that went through every state and wrote the state file after its
\* two attempts
C17_Witness ==
  /\ RunEnded /\ stateFile # fileAtStart
  /\ scanComplete /\ karakeep_list_id # 0 /\ Len(results) = 2

\* C18: the attempt for a record whose id the scan mapped to a bookmark first
\* sends the update of that bookmark.  When the update succeeds the attempt
\* succeeds with no further call; when it is answered 404 the create follows
\* (and the link after a create that gave an id) and the attempt succeeds
\* exactly when create and link succeeded; on any other failure of the update
\* the attempt fails with no further call
C18_UpdatePath ==
  (results # <<>> /\ Last(results).existing # 0) =>
    LET r == Last(results)
        put == Call("PUT_bookmark", r.existing)
        post == Call("POST_bookmarks", 0)
    IN  /\ calls # <<>> /\ calls[1] = put
        /\ r.upd = "ok" => (r.success /\ calls = <<put>>)
        /\ r.upd = "404" =>
             /\ Len(calls) >= 2 /\ calls[2] = post
             /\ r.cr # "none"
             /\ r.success = (r.cr = "ok" /\ r.ln = "ok")
             /\ IF r.cr = "ok"
                THEN calls = <<put, post, Call("PUT_list_bookmark", r.new_id)>>
                ELSE calls = <<put, post>>
        /\ r.upd \in {"error", "timeout"} => (~r.success /\ calls = <<put>>)
        /\ r.upd \in {"ok", "404", "error", "timeout"}

\* an update answered 404, followed by a create and a link that succeeded
C18_Witness ==
  /\ results # <<>> /\ Last(results).existing # 0
  /\ Last(results).upd = "404" /\ Last(results).cr = "ok"
  /\ Last(results).ln = "ok" /\ Last(results).success
  /\ Len(calls) = 3

\* C19: every scan request carries the current cursor; a request that times
\* out leaves the scan running with the cursor, the map and the count of
\* handled bookmarks as they were, so the request after it carries the same
\* cursor; no number of timeouts in a row ends the scan; a scan that ended
\* normally has handled every bookmark of the list exactly once
C19_TimeoutRetriesSameRequest ==
  /\ [][pc = "scan" =>
          /\ scan_last'.cursor = current_cursor
          /\ scan_last'.resp = "timeout" =>
               /\ pc' = "scan" /\ phase' = phase
               /\ current_cursor' = current_cursor
               /\ karakeep_item_map' = karakeep_item_map
               /\ items_processed' = items_processed
               /\ scan_timeouts' = scan_timeouts + 1
          /\ scan_last.resp = "timeout" =>
               scan_last'.cursor = scan_last.cursor]_vars
  /\ [](scan_timeouts > 0 => (pc = "scan" /\ scan_last.resp = "timeout"))
  /\ [](scanComplete =>
          items_processed = Cardinality(ListedAfter(bookmarksAtStart, karakeep_list_id, 0)))

\* the request for a later page has timed out MaxRetries times in a row and
\* the scan still runs with the entries of the earlier pages
C19_Witness ==
  /\ pc = "scan" /\ scan_timeouts = MaxRetries
  /\ current_cursor # 0 /\ scan_last.cursor = current_cursor
  /\ karakeep_item_map # <<>> /\ items_processed >= 1

\* C20: a scan request answered with an empty page or with a page without
\* cursor ends the scan; every scan ends; every started run ends, as
\* Finalized or as Aborted
C20_ScanAndRunTerminate ==
  /\ [][(/\ pc = "scan" /\ scan_last'.resp = "ok"
         /\ \/ PageIds(bookmarks, karakeep_list_id, current_cursor) = {}
            \/ NextCursor(bookmarks, karakeep_list_id, current_cursor) = 0)
        => pc' = "query"]_vars
  /\ (pc = "scan") ~> (pc = "query")
  /\ (pc # "idle") ~> (pc = "idle" /\ phase \in {"Finalized", "Aborted"})

\* a run that ended Finalized after a scan over more than one page
C20_Witness ==
  /\ RunEnded /\ scanComplete /\ items_processed >= 2
  /\ scan_last.cursor # 0 /\ scan_last.resp = "ok"

\* the bookmarks of the pages before the request of cursor
EarlierPages(bm, cursor) ==
  {i \in ListedAfter(bm, karakeep_list_id, 0) : i <= cursor}

\* the bookmarks the scan had handled when its last request was over
HandledIds(bm) ==
  EarlierPages(bm, scan_last.cursor)
    \cup FirstOf(PageIds(bm, karakeep_list_id, scan_last.cursor), scan_last.handled)

\* C21 as stated: after a scan that broke off on an error, the map holds
\* the entries of the fully processed earlier pages and nothing else
C21_OnlyEarlierPages ==
  (scan_last.resp = "error" /\ pc # "scan") =>
    karakeep_item_map =
      MapAfterPage(<<>>, bookmarksAtStart,
                   EarlierPages(bookmarksAtStart, scan_last.cursor))

\* C21: a scan that breaks off on an error other than a timeout raises
\* nothing and returns the entries of every bookmark it had handled, those
\* of the earlier pages and those of the failing page that came before the
\* error; the run goes on to Processing and looks every record up in that map
C21_ScanErrorKeepsHandledEntries ==
  /\ [][(pc = "scan" /\ scan_last'.resp = "error") =>
          /\ pc' = "query" /\ phase' = "MapBuilt" /\ exitCode' = -1
          /\ scan_last'.cursor = current_cursor
          /\ karakeep_item_map' =
               MapAfterPage(karakeep_item_map, bookmarks,
                            FirstOf(PageIds(bookmarks, karakeep_list_id, current_cursor),
                                    scan_last'.handled))]_vars
  /\ []((scan_last.resp = "error" /\ pc # "scan") =>
          /\ karakeep_item_map =
               MapAfterPage(<<>>, bookmarksAtStart, HandledIds(bookmarksAtStart))
          /\ phase \in {"MapBuilt", "Processing", "Finalized"}
          /\ \A k \in DOMAIN results :
               results[k].existing = MapGet(karakeep_item_map, results[k].id))
  /\ [][(pc = "query" /\ scan_last.resp = "error") =>
          (phase' = "Processing" /\ karakeep_item_map' = karakeep_item_map)]_vars

\* a page broke off after its first bookmark, and the run has updated the
\* bookmark that this one entry of the map names
C21_Witness ==
  /\ scan_last.resp = "error" /\ scan_last.handled >= 1
  /\ karakeep_item_map # <<>>
  /\ phase = "Processing" /\ results # <<>>
  /\ results[1].existing # 0 /\ results[1].upd = "ok"

\* C22: after a scan in which no request failed, the map has an entry for
\* an identifier exactly when some bookmark of the list has a title that
\* ends with the tag of that identifier, and the entry names the last such
\* bookmark in scan order
C22_MapHoldsEveryTaggedItem ==
  (scanComplete /\ ~everFailed) =>
    \A id \in Ids :
      MapGet(karakeep_item_map, id) =
        (IF TaggedInList(bookmarksAtStart, id) = {} THEN 0
         ELSE SetMax(TaggedInList(bookmarksAtStart, id)))

\* the positions of the lists with exactly the requested name that a
\* successful fetch shows
ExactNameLists ==
  IF lIn.get = "ok"
  THEN {i \in 1..Len(lIn.lists) : lIn.lists[i] = TARGET_LIST_NAME}
  ELSE {}

\* C23: POST /lists is sent exactly when the list fetch succeeded and showed
\* no list with exactly the requested name; a failed fetch leads to no create
\* call; the id of the first list with exactly the requested name is
\* returned when there is one, the id of the create response (top level or
\* under 'list') when the POST was sent and carries one; the run is halted
\* exactly when neither yields an id
C23_CreateOnlyAfterFetchWithoutExactName ==
  cpc = "listed" =>
    /\ lOut.posted <=> (lIn.get # "error" /\ ExactNameLists = {})
    /\ lIn.get = "error" => (~lOut.posted /\ lOut.list_id = 0)
    /\ ExactNameLists # {} =>
         (lOut.list_id \in ExactNameLists
          /\ \A i \in ExactNameLists : lOut.list_id <= i)
    /\ (lOut.posted /\ lIn.post \in {"id", "list.id"}) =>
         lOut.list_id = Len(lIn.lists) + 1
    /\ (lOut.posted /\ lIn.post \in {"noid", "error"}) => lOut.list_id = 0
    /\ lOut.halted <=> lOut.list_id = 0

\* the server holds the requested name in lower case only: the list is
\* created and the id found under 'list' of the create response is returned
C23_Witness ==
  /\ cpc = "listed" /\ lIn.get = "ok" /\ lIn.lists = <<"chats">>
  /\ lIn.post = "list.id"
  /\ lOut.posted /\ lOut.list_id = 2 /\ ~lOut.halted

\* the records of this run that were synced successfully with an updated_at
\* above the loaded watermark
SyncedAboveWatermark ==
  {k \in DOMAIN results :
     results[k].success /\ results[k].updated_at > last_sync_ts_epoch}

\* C24: in a run that ended Finalized, save_sync_state was called exactly
\* when some record was synced successfully with an updated_at above the
\* loaded watermark; a save that succeeded left in the state file the maximum
\* updated_at of the successfully synced records; without a save the state
\* file is as the run found it; a save stopped by an IOError left the file
\* as found or as the truncation left it, never with another timestamp
C24_StateWrittenIffRecordSynced ==
  RunEnded =>
    /\ save_last # "none" <=> SyncedAboveWatermark # {}
    /\ save_last = "ok" =>
         stateFile =
           FileValid(EpochToISO(
             SetMax({results[k].updated_at : k \in SyncedAboveWatermark})))
    /\ save_last = "none" => stateFile = fileAtStart
    /\ save_last = "ioerror" => stateFile \in {fileAtStart, FileTorn}

\* a run that synced the earlier of two records, failed on the later one and
\* saved the updated_at of the earlier one
C24_Witness ==
  /\ RunEnded /\ save_last = "ok" /\ Len(results) = 2
  /\ results[1].success /\ ~results[2].success
  /\ results[1].updated_at < results[2].updated_at
  /\ stateFile # fileAtStart
  /\ stateFile = FileValid(EpochToISO(results[1].updated_at))

\* C25: a source query that fails leaves an empty sequence of records; the
\* run then issues no upsert call, leaves the bookmarks and the state file as
\* it found them, and ends Finalized with exit status 0
C25_QueryFailureSyncsNothing ==
  /\ [][(pc = "query" /\ query_last' = "failed") =>
          /\ chats_to_process' = <<>>
          /\ pc' = "finalize" /\ phase' = "Processing"]_vars
  /\ [](query_last = "failed" =>
          /\ chats_to_process = <<>> /\ results = <<>> /\ calls = <<>>
          /\ chats_processed_count = 0
          /\ bookmarks = bookmarksAtStart
          /\ stateFile = fileAtStart /\ save_last = "none"
          /\ \/ pc = "finalize" /\ phase = "Processing"
             \/ RunEnded /\ exitCode = 0)
  /\ (query_last = "failed") ~> (RunEnded /\ query_last = "failed")

\* a run that loaded a watermark below the updated_at of a source row, whose
\* query failed, and that ended Finalized
C25_Witness ==
  /\ RunEnded /\ query_last = "failed"
  /\ fileAtStart = FileValid(EpochToISO(1)) /\ last_sync_ts_epoch = 1
  /\ \E r \in src : r.updated_at > last_sync_ts_epoch

\* the data errors of a chat column
DataErrorKinds == {"empty", "badjson", "nomessages", "badmessage"}

\* the placeholder texts of main()
PlaceholderTexts ==
  {"[Conversation JSON parsing failed or no messages found]",
   "[No messages found in chat JSON data]",
   "[Chat JSON data missing in source database]",
   InvalidJsonText,
   "[ERROR: Unexpected error processing chat data]"}

\* C26: a record whose chat column is empty, is not JSON, has no messages or
\* has a message that cannot be rendered is attempted like any other: its
\* body is a placeholder, it is updated when the map has its id and created
\* otherwise, the bookmark written carries the placeholder, and its success
\* raises the maximum of the run; a record with a well-formed chat column
\* keeps its rendered body; every record the query returned is attempted
C26_DataErrorConfinedToRecord ==
  /\ [][pc = "process" =>
          LET row == chats_to_process[chats_processed_count + 1]
              r == Last(results')
          IN  /\ Len(results') = Len(results) + 1
              /\ r.id = row.id /\ r.updated_at = row.updated_at
              /\ row.chat \in DataErrorKinds => r.text \in PlaceholderTexts
              /\ row.chat = "ok" => r.text = Rendered
              /\ r.existing = MapGet(karakeep_item_map, row.id)
              /\ calls'[1] = IF r.existing # 0
                             THEN Call("PUT_bookmark", r.existing)
                             ELSE Call("POST_bookmarks", 0)
              /\ r.upd = "ok" =>
                   (r.success /\ bookmarks'[r.existing].text = r.text)
              /\ r.cr = "ok" =>
                   /\ bookmarks'[r.new_id].text = r.text
                   /\ r.success = (r.ln = "ok")
              /\ r.success =>
                   current_run_max_timestamp_epoch' =
                     Max(current_run_max_timestamp_epoch, row.updated_at)
              /\ karakeep_item_map' = karakeep_item_map
              /\ chats_to_process' = chats_to_process]_vars
  /\ []((RunEnded /\ query_last = "ok") =>
          /\ Len(results) = Len(chats_to_process)
          /\ \A k \in DOMAIN results : results[k].id = chats_to_process[k].id)

\* a run that created the bookmark of a well-formed record, then updated
\* the bookmark of a later record whose chat column is not JSON with the
\* placeholder, and saved the updated_at of that record as the watermark
C26_Witness ==
  /\ RunEnded /\ Len(results) = 2
  /\ chats_to_process[1].chat = "ok"
  /\ results[1].existing = 0 /\ results[1].success
  /\ results[1].text = Rendered
  /\ chats_to_process[2].chat = "badjson"
  /\ results[2].existing # 0 /\ results[2].upd = "ok" /\ results[2].success
  /\ results[2].text \in PlaceholderTexts
  /\ bookmarks[results[2].existing].text = results[2].text
  /\ results[1].updated_at < results[2].updated_at
  /\ stateFile = FileValid(EpochToISO(results[2].updated_at))

\* C27: for a maximum length N of at least the length of the tag, the
\* encoded title ends with the whole tag; the part before the tag is the
\* title when it fits into the N - len(tag) characters left, and otherwise
\* has exactly that many characters: the first N - len(tag) - 3 of the title
\* followed by "..." when N - len(tag) >= 3, the first N - len(tag) of the
\* title when not
C27_TagNeverTruncated ==
  (cpc \in {"encoded", "decoded"} /\ cN >= Len(IdTagSuffix(cId))) =>
    LET tag == IdTagSuffix(cId)
        original_title == OriginalTitle(cRaw, cId)
        budget == cN - Len(tag)
        part == SubSeq(cTitle, 1, Len(cTitle) - Len(tag))
    IN  /\ EndsWith(cTitle, tag)
        /\ Len(original_title) <= budget => part = original_title
        /\ Len(original_title) > budget =>
             /\ Len(part) = budget
             /\ IF budget >= 3
                THEN part = SubSeq(original_title, 1, budget - 3) \o Ellipsis
                ELSE part = SubSeq(original_title, 1, budget)

\* a raw title of four characters encoded into a budget of three: the title
\* part is "..." and the tag follows it whole
C27_Witness ==
  /\ cpc = "encoded" /\ Len(cRaw) = 4
  /\ cN = Len(IdTagSuffix(cId)) + 3
  /\ cTitle = Ellipsis \o IdTagSuffix(cId)

====
